---- MODULE Spec2Model ----
(***************************************************************************)
(* Model of the AgentCore streaming proxy Lambda                           *)
(* (lambda/agentcore-proxy/index.ts).                                      *)
(*                                                                         *)
(* One request is followed from module load through parseClientRequest,    *)
(* HttpResponseStream.from, the InvokeAgentRuntime call, the stream        *)
(* pipeline and the catch/finally block of the handler.                    *)
(*                                                                         *)
(* Conventions                                                             *)
(*  - Absent stands for JavaScript undefined / null.                       *)
(*  - The file is an ECMAScript module, so its code is strict-mode code:   *)
(*    assigning a property on a primitive or on null throws a TypeError.   *)
(*  - stream.pipeline follows the Node.js contract: on a clean end of the  *)
(*    source the destination is ended, on a failure every stream of the    *)
(*    pipeline is destroyed before the promise rejects.                    *)
(*  - The outbound transport itself is assumed not to fail on its own;     *)
(*    relay failures originate in the backend stream.                      *)
(***************************************************************************)
EXTENDS Integers, Sequences, FiniteSets, TLC

\* ---------------------------------------------------------------- bounds
MaxChunks == 3
HighWaterMark == 2

\* ------------------------------------------------------------- constants
Absent == "<undefined>"
DefaultPrompt == "konnichiwa-genki-desu-ka"
Qualifier == "DEFAULT"
StatusCode == 200
GenericMessage == <<"Internal server error">>

\* Text is a sequence of tokens: the characters that matter to JSON and to
\* event-stream framing are tokens of their own, every other token is a run
\* of ordinary characters (none of them starting with a JSON escape letter).
QUOTE == "\""
BACKSLASH == "\\"
NEWLINE == "\n"
AgentArn == "arn:aws:bedrock-agentcore:runtime/agent"

Chunks == {"A", "B"}
UUIDs == {"uuid-1", "uuid-2"}
BodyPrompts == {Absent, "", "hi"}
BodySessionIds == {Absent, "", "abc"}
QueryPrompts == {Absent, "", "q"}
QuerySessionIds == {Absent, "", "xyz"}

\* JavaScript truthiness of an optional string
Truthy(s) == s # Absent /\ s # ""

\* --------------------------------------------------------- inbound event
\* The text carried by a body, before any transport encoding.
\*   empty      the empty string
\*   malformed  text that is not JSON
\*   null, prim, array, object   well-formed JSON of that kind
JsonText(k, p, s) == [kind |-> k, prompt |-> p, sessionId |-> s]

BodyTexts ==
    {JsonText(k, Absent, Absent) : k \in {"empty", "malformed", "null", "prim", "array"}}
    \cup {JsonText("object", p, s) : p \in BodyPrompts, s \in BodySessionIds}

MalformedText == JsonText("malformed", Absent, Absent)

\* event.body: enc = "none" is a null body, "plain" is the text itself,
\* "b64" is the base64 encoding of the text.
NoBody == [enc |-> "none", text |-> JsonText("empty", Absent, Absent)]
Bodies == {NoBody} \cup {[enc |-> e, text |-> t] : e \in {"plain", "b64"}, t \in BodyTexts}

NoQuery == [present |-> FALSE, prompt |-> Absent, sessionId |-> Absent]
Queries == {NoQuery}
    \cup {[present |-> TRUE, prompt |-> p, sessionId |-> s] :
             p \in QueryPrompts, s \in QuerySessionIds}

Events == [body : Bodies, isBase64Encoded : BOOLEAN, queryStringParameters : Queries]

\* ---------------------------------------------------------------- errors
NoError == [isError |-> FALSE, name |-> "none", message |-> <<>>]
\* JSON.parse: Unexpected token 'o', "not json" is not valid JSON
SyntaxError ==
    [isError |-> TRUE, name |-> "SyntaxError",
     message |-> <<"Unexpected token 'o', ", QUOTE, "not json", QUOTE, " is not valid JSON">>]
\* Cannot set properties of null (setting 'sessionId')
TypeError ==
    [isError |-> TRUE, name |-> "TypeError",
     message |-> <<"Cannot set properties of null (setting 'sessionId')">>]
\* ERR_INVALID_ARG_TYPE: The "source" argument must be ... Received undefined
InvalidArgError ==
    [isError |-> TRUE, name |-> "TypeError",
     message |-> <<"The ", QUOTE, "source", QUOTE, " argument must be a stream. Received undefined">>]
\* what the backend client or the backend stream can fail with: an Error
\* with a plain message, an Error whose message holds a backslash and a
\* line break, a thrown value that is not an Error
BackendErrors ==
    {[isError |-> TRUE, name |-> "AccessDeniedException", message |-> <<"not authorized">>],
     [isError |-> TRUE, name |-> "InternalServerException",
      message |-> <<"unexpected ", BACKSLASH, "w in upstream reply", NEWLINE, "caused by: reset">>],
     [isError |-> FALSE, name |-> "thrown-value", message |-> <<"aborted">>]}

\* ------------------------------------------------------- request parsing
NoParams == [kind |-> "none", prompt |-> Absent, sessionId |-> Absent]

\* event.body is truthy: not null and not the empty string
\* (the base64 encoding of the empty string is the empty string)
BodyTruthy(b) == b.enc # "none" /\ b.text.kind # "empty"

\* Buffer.from(body, "base64").toString("utf-8"): recovers the text of a
\* base64 body; applied to text that was never encoded it yields bytes
\* that are not JSON.
Base64Decode(b) == IF b.enc = "b64" THEN b.text ELSE MalformedText

\* the string JSON.parse sees when the body is used as is: base64
\* characters are not JSON.
RawText(b) == IF b.enc = "plain" THEN b.text ELSE MalformedText

\* JSON.parse
JSONparse(t) ==
    IF t.kind \in {"empty", "malformed"}
    THEN [threw |-> TRUE, err |-> SyntaxError, params |-> NoParams]
    ELSE [threw |-> FALSE, err |-> NoError,
          params |-> [kind |-> t.kind, prompt |-> t.prompt, sessionId |-> t.sessionId]]

\* variant: a fresh identifier is always assigned
AssignSessionIdAlwaysNew(r, uuid) ==
    IF r.threw THEN r
    ELSE IF r.params.kind \in {"null", "prim"}
    THEN [threw |-> TRUE, err |-> TypeError, params |-> NoParams]
    ELSE [r EXCEPT !.params.sessionId = uuid]

\* variant: only an absent identifier is replaced (?? in place of ||)
AssignSessionIdNullish(r, uuid) ==
    IF r.threw THEN r
    ELSE IF r.params.kind \in {"null", "prim"}
    THEN [threw |-> TRUE, err |-> TypeError, params |-> NoParams]
    ELSE [r EXCEPT !.params.sessionId =
              IF r.params.sessionId # Absent THEN r.params.sessionId ELSE uuid]

\* params.sessionId = params.sessionId || randomUUID()
AssignSessionId(r, uuid) ==
    IF r.threw THEN r
    ELSE IF r.params.kind \in {"null", "prim"}
    THEN [threw |-> TRUE, err |-> TypeError, params |-> NoParams]
    ELSE [r EXCEPT !.params.sessionId =
              IF Truthy(r.params.sessionId) THEN r.params.sessionId ELSE uuid]

\* variant: the query parameters are tried before the body
SelectParamsQueryFirst(e) ==
    IF e.queryStringParameters.present /\ Truthy(e.queryStringParameters.prompt)
    THEN [threw |-> FALSE, err |-> NoError,
          params |-> [kind |-> "object",
                      prompt |-> e.queryStringParameters.prompt,
                      sessionId |-> e.queryStringParameters.sessionId]]
    ELSE IF e.isBase64Encoded /\ BodyTruthy(e.body)
    THEN JSONparse(Base64Decode(e.body))
    ELSE IF BodyTruthy(e.body)
    THEN JSONparse(RawText(e.body))
    ELSE [threw |-> FALSE, err |-> NoError,
          params |-> [kind |-> "object", prompt |-> DefaultPrompt, sessionId |-> Absent]]

\* variant: a body that does not parse falls back to the default prompt
SelectParamsFallback(e) ==
    LET fallback == [threw |-> FALSE, err |-> NoError,
                     params |-> [kind |-> "object", prompt |-> DefaultPrompt,
                                 sessionId |-> Absent]]
        viaBody == IF e.isBase64Encoded
                   THEN JSONparse(Base64Decode(e.body))
                   ELSE JSONparse(RawText(e.body))
    IN  IF BodyTruthy(e.body)
        THEN IF viaBody.threw THEN fallback ELSE viaBody
        ELSE IF e.queryStringParameters.present /\ Truthy(e.queryStringParameters.prompt)
        THEN [threw |-> FALSE, err |-> NoError,
              params |-> [kind |-> "object",
                          prompt |-> e.queryStringParameters.prompt,
                          sessionId |-> e.queryStringParameters.sessionId]]
        ELSE fallback

\* selection of the inbound shape, in the order of the if / else-if chain
SelectParams(e) ==
    IF e.isBase64Encoded /\ BodyTruthy(e.body)
    THEN JSONparse(Base64Decode(e.body))
    ELSE IF BodyTruthy(e.body)
    THEN JSONparse(RawText(e.body))
    ELSE IF e.queryStringParameters.present /\ Truthy(e.queryStringParameters.prompt)
    THEN [threw |-> FALSE, err |-> NoError,
          params |-> [kind |-> "object",
                      prompt |-> e.queryStringParameters.prompt,
                      sessionId |-> e.queryStringParameters.sessionId]]
    ELSE [threw |-> FALSE, err |-> NoError,
          params |-> [kind |-> "object", prompt |-> DefaultPrompt, sessionId |-> Absent]]

parseClientRequest(e, uuid) == AssignSessionId(SelectParams(e), uuid)

\* ------------------------------------------------------------ the channel
responseMetadata ==
    [statusCode |-> StatusCode, contentType |-> "text/event-stream",
     cacheControl |-> "no-cache", accelBuffering |-> "no"]
NoMetadata ==
    [statusCode |-> 0, contentType |-> Absent,
     cacheControl |-> Absent, accelBuffering |-> Absent]

\* `data: {"error": "${message}"}\n\n`: the message is placed between
\* the quotes as it is
FormatErrorRecord(msg) ==
    <<"data: ", "{", QUOTE, "error", QUOTE, ": ", QUOTE>> \o msg \o <<QUOTE, "}", NEWLINE, NEWLINE>>

NoFrame == [origin |-> "none", data |-> <<>>]
BackendFrame(c) == [origin |-> "backend", data |-> <<c>>]
ErrorFrame(msg) == [origin |-> "proxy", data |-> FormatErrorRecord(msg)]

VARIABLES
    agentCoreArn,    \* process.env.AGENT_ARN
    pc,              \* position of the module / handler
    event,           \* the invocation record of the request
    requestParams,   \* result of parseClientRequest
    opened,          \* number of HttpResponseStream.from calls
    metadata,        \* response metadata attached to the channel
    chanState,       \* "writable", "ended" or "destroyed"
    sinkBuf,         \* frames accepted by the channel, not yet drained
    delivered,       \* frames that reached the client
    sent,            \* InvokeAgentRuntime commands issued
    srcState,        \* backend stream: none, flowing, paused, ended, errored
    emitted,         \* chunks the backend stream has produced
    error,           \* the value caught by the handler
    ops              \* every call made on the channel, in order

vars == <<agentCoreArn, pc, event, requestParams, opened, metadata, chanState,
          sinkBuf, delivered, sent, srcState, emitted, error, ops>>

Op(kind, who, f) ==
    [op |-> kind, by |-> who, st |-> chanState, opened |-> opened, frame |-> f,
     raised |-> FALSE]

Init ==
    /\ agentCoreArn \in {Absent, "", AgentArn}
    /\ pc = "load"
    /\ event = [body |-> NoBody, isBase64Encoded |-> FALSE, queryStringParameters |-> NoQuery]
    /\ requestParams = NoParams
    /\ opened = 0
    /\ metadata = NoMetadata
    /\ chanState = "writable"
    /\ sinkBuf = <<>>
    /\ delivered = <<>>
    /\ sent = <<>>
    /\ srcState = "none"
    /\ emitted = <<>>
    /\ error = NoError
    /\ ops = <<>>

\* variant: the module loads without checking the ARN
LoadModuleNoCheck ==
    /\ pc = "load"
    /\ pc' = "ready"
    /\ UNCHANGED <<agentCoreArn, event, requestParams, opened, metadata, chanState,
                   sinkBuf, delivered, sent, srcState, emitted, error, ops>>

\* module top level: the ARN check
LoadModule ==
    /\ pc = "load"
    /\ pc' = IF Truthy(agentCoreArn) THEN "ready" ELSE "startupFailed"
    /\ UNCHANGED <<agentCoreArn, event, requestParams, opened, metadata, chanState,
                   sinkBuf, delivered, sent, srcState, emitted, error, ops>>

\* the runtime invokes the handler with one event and a fresh response stream
HandlerEntry ==
    /\ pc = "ready"
    /\ \E e \in Events : event' = e
    /\ pc' = "parse"
    /\ UNCHANGED <<agentCoreArn, requestParams, opened, metadata, chanState,
                   sinkBuf, delivered, sent, srcState, emitted, error, ops>>

\* const requestParams = parseClientRequest(event)
ParseRequest ==
    /\ pc = "parse"
    /\ \E uuid \in UUIDs :
          LET r == parseClientRequest(event, uuid) IN
          IF r.threw
          THEN /\ error' = r.err
               /\ pc' = "catch"
               /\ UNCHANGED requestParams
          ELSE /\ requestParams' = r.params
               /\ pc' = "open"
               /\ UNCHANGED error
    /\ UNCHANGED <<agentCoreArn, event, opened, metadata, chanState,
                   sinkBuf, delivered, sent, srcState, emitted, ops>>

\* variant: the command is sent without the channel having been opened
OpenHttpStreamSkipped ==
    /\ pc = "open"
    /\ pc' = "send"
    /\ UNCHANGED <<agentCoreArn, event, requestParams, opened, metadata, chanState,
                   sinkBuf, delivered, sent, srcState, emitted, error, ops>>

\* awslambda.HttpResponseStream.from(responseStream, responseMetadata)
OpenHttpStream ==
    /\ pc = "open"
    /\ opened' = opened + 1
    /\ metadata' = responseMetadata
    /\ ops' = Append(ops, Op("open", "handler", NoFrame))
    /\ pc' = "send"
    /\ UNCHANGED <<agentCoreArn, event, requestParams, chanState,
                   sinkBuf, delivered, sent, srcState, emitted, error>>

\* new InvokeAgentRuntimeCommand(...) and bedrockClient.send(invokeCommand)
\* JSON.stringify({ prompt }): a property whose value is undefined is
\* left out of the serialized object
StringifyPrompt(p) ==
    IF p = Absent
    THEN [hasPrompt |-> FALSE, prompt |-> Absent]
    ELSE [hasPrompt |-> TRUE, prompt |-> p]

invokeCommand ==
    [agentRuntimeArn |-> agentCoreArn,
     runtimeSessionId |-> requestParams.sessionId,
     payload |-> StringifyPrompt(requestParams.prompt),
     qualifier |-> Qualifier]

SendCommand ==
    /\ pc = "send"
    /\ sent' = Append(sent, invokeCommand)
    /\ pc' = "awaitSend"
    /\ UNCHANGED <<agentCoreArn, event, requestParams, opened, metadata, chanState,
                   sinkBuf, delivered, srcState, emitted, error, ops>>

\* the awaited send resolves with a stream handle
SendResolves ==
    /\ pc = "awaitSend"
    /\ srcState' = "flowing"
    /\ pc' = "relay"
    /\ UNCHANGED <<agentCoreArn, event, requestParams, opened, metadata, chanState,
                   sinkBuf, delivered, sent, emitted, error, ops>>

\* variant: the relay is entered although no stream handle came back
SendResolvesNoHandleRelays ==
    /\ pc = "awaitSend"
    /\ pc' = "relay"
    /\ UNCHANGED <<agentCoreArn, event, requestParams, opened, metadata, chanState,
                   sinkBuf, delivered, sent, srcState, emitted, error, ops>>

\* the awaited send resolves without a stream handle: asyncPipeline rejects
\* on its invalid first argument before touching the destination
SendResolvesNoHandle ==
    /\ pc = "awaitSend"
    /\ error' = InvalidArgError
    /\ pc' = "catch"
    /\ UNCHANGED <<agentCoreArn, event, requestParams, opened, metadata, chanState,
                   sinkBuf, delivered, sent, srcState, emitted, ops>>

\* variant: a rejected send is issued again
SendRejectsRetry ==
    /\ pc = "awaitSend"
    /\ \E err \in BackendErrors : error' = err
    /\ pc' = "send"
    /\ UNCHANGED <<agentCoreArn, event, requestParams, opened, metadata, chanState,
                   sinkBuf, delivered, sent, srcState, emitted, ops>>

\* the awaited send rejects
SendRejects ==
    /\ pc = "awaitSend"
    /\ \E err \in BackendErrors : error' = err
    /\ pc' = "catch"
    /\ UNCHANGED <<agentCoreArn, event, requestParams, opened, metadata, chanState,
                   sinkBuf, delivered, sent, srcState, emitted, ops>>

\* ------------------------------------------------- calls on the channel
\* variant: a frame written while the channel is busy is lost
ChannelWriteDropsWhenBusy(who, f) ==
    /\ ops' = Append(ops, Op("write", who, f))
    /\ sinkBuf' = IF chanState = "writable" /\ sinkBuf = <<>> THEN <<f>> ELSE sinkBuf
    /\ UNCHANGED <<chanState, delivered>>

\* stream.write(f): a writable channel accepts the frame; a channel that
\* was ended or destroyed accepts nothing
ChannelWrite(who, f) ==
    /\ ops' = Append(ops, Op("write", who, f))
    /\ sinkBuf' = IF chanState = "writable" THEN Append(sinkBuf, f) ELSE sinkBuf
    /\ UNCHANGED <<chanState, delivered>>

\* stream.end(): a writable channel is ended, its buffered frames are
\* still flushed; on an ended or destroyed channel nothing changes
ChannelEnd(who) ==
    /\ ops' = Append(ops, Op("end", who, NoFrame))
    /\ chanState' = IF chanState = "writable" THEN "ended" ELSE chanState
    /\ UNCHANGED <<sinkBuf, delivered>>

\* stream.destroy(err): the channel is torn down and its buffer discarded
ChannelDestroy(who) ==
    /\ ops' = Append(ops, Op("destroy", who, NoFrame))
    /\ chanState' = "destroyed"
    /\ sinkBuf' = <<>>
    /\ UNCHANGED delivered

\* variant: chunks are written as they arrive, the source is never paused
RelayChunkNoPause ==
    /\ pc = "relay"
    /\ srcState = "flowing"
    /\ Len(emitted) < MaxChunks
    /\ \E c \in Chunks :
          /\ emitted' = Append(emitted, c)
          /\ ChannelWrite("relay", BackendFrame(c))
    /\ srcState' = "flowing"
    /\ UNCHANGED <<agentCoreArn, pc, event, requestParams, opened, metadata,
                   sent, error>>

\* --------------------------------- asyncPipeline(response, httpStream)
\* the source produces a chunk and the pipeline writes it to the channel;
\* a write that fills the channel pauses the source
RelayChunk ==
    /\ pc = "relay"
    /\ srcState = "flowing"
    /\ Len(emitted) < MaxChunks
    /\ \E c \in Chunks :
          /\ emitted' = Append(emitted, c)
          /\ ChannelWrite("relay", BackendFrame(c))
    /\ srcState' = IF Len(sinkBuf') >= HighWaterMark THEN "paused" ELSE "flowing"
    /\ UNCHANGED <<agentCoreArn, pc, event, requestParams, opened, metadata,
                   sent, error>>

\* the consumer takes the oldest buffered frame; an emptied buffer
\* resumes a paused source
Drain ==
    /\ sinkBuf # <<>>
    /\ delivered' = Append(delivered, Head(sinkBuf))
    /\ sinkBuf' = Tail(sinkBuf)
    /\ srcState' = IF srcState = "paused" /\ sinkBuf' = <<>> THEN "flowing" ELSE srcState
    /\ UNCHANGED <<agentCoreArn, pc, event, requestParams, opened, metadata,
                   chanState, sent, emitted, error, ops>>

\* the source ends cleanly: the pipeline ends the destination
SourceEnd ==
    /\ pc = "relay"
    /\ srcState = "flowing"
    /\ srcState' = "ended"
    /\ ChannelEnd("relay")
    /\ UNCHANGED <<agentCoreArn, pc, event, requestParams, opened, metadata,
                   sent, emitted, error>>

\* the destination has finished: the awaited pipeline resolves and the
\* handler returns
PipelineResolves ==
    /\ pc = "relay"
    /\ srcState = "ended"
    /\ sinkBuf = <<>>
    /\ pc' = "done"
    /\ UNCHANGED <<agentCoreArn, event, requestParams, opened, metadata, chanState,
                   sinkBuf, delivered, sent, srcState, emitted, error, ops>>

\* the source fails: the pipeline destroys the destination and rejects
SourceError ==
    /\ pc = "relay"
    /\ srcState \in {"flowing", "paused"}
    /\ \E err \in BackendErrors : error' = err
    /\ srcState' = "errored"
    /\ ChannelDestroy("relay")
    /\ pc' = "catch"
    /\ UNCHANGED <<agentCoreArn, event, requestParams, opened, metadata,
                   sent, emitted>>

\* variant: no inner try/catch, the failure of the write leaves the handler
WriteRaisesPropagates(f) ==
    /\ chanState # "writable"
    /\ ops' = Append(ops, [Op("write", "reporter", f) EXCEPT !.raised = TRUE])
    /\ pc' = "fault"
    /\ UNCHANGED <<chanState, sinkBuf, delivered>>

\* ------------------------------------------------------ the catch block
\* a write call on a channel that is no longer writable may also raise;
\* the inner catch logs it and control passes to the finally block
WriteRaises(f) ==
    /\ chanState # "writable"
    /\ ops' = Append(ops, [Op("write", "reporter", f) EXCEPT !.raised = TRUE])
    /\ pc' = "finally"
    /\ UNCHANGED <<chanState, sinkBuf, delivered>>

\* responseStream.write('data: {"error": "Internal server error"}\n\n')
CatchWriteGeneric ==
    /\ pc = "catch"
    /\ \/ /\ ChannelWrite("reporter", ErrorFrame(GenericMessage))
          /\ pc' = "catchMessage"
       \/ WriteRaises(ErrorFrame(GenericMessage))
    /\ UNCHANGED <<agentCoreArn, event, requestParams, opened, metadata,
                   sent, srcState, emitted, error>>

\* if (error instanceof Error) responseStream.write(`data: {"error": "${error.message}"}\n\n`)
CatchWriteMessage ==
    /\ pc = "catchMessage"
    /\ \/ /\ error.isError
          /\ ChannelWrite("reporter", ErrorFrame(error.message))
          /\ pc' = "finally"
       \/ /\ error.isError
          /\ WriteRaises(ErrorFrame(error.message))
       \/ /\ ~error.isError
          /\ pc' = "finally"
          /\ UNCHANGED <<chanState, sinkBuf, delivered, ops>>
    /\ UNCHANGED <<agentCoreArn, event, requestParams, opened, metadata,
                   sent, srcState, emitted, error>>

\* finally { responseStream.end() }
Finally ==
    /\ pc = "finally"
    /\ ChannelEnd("reporter")
    /\ pc' = "done"
    /\ UNCHANGED <<agentCoreArn, event, requestParams, opened, metadata,
                   sent, srcState, emitted, error>>

Next ==
    \/ LoadModule
    \/ HandlerEntry
    \/ ParseRequest
    \/ OpenHttpStream
    \/ SendCommand
    \/ SendResolves
    \/ SendResolvesNoHandle
    \/ SendRejects
    \/ RelayChunk
    \/ Drain
    \/ SourceEnd
    \/ PipelineResolves
    \/ SourceError
    \/ CatchWriteGeneric
    \/ CatchWriteMessage
    \/ Finally

Spec == Init /\ [][Next]_vars

\* ================================================================ claims
\* views of the call log
WriteOps == SelectSeq(ops, LAMBDA o : o.op = "write")
AcceptedOps == SelectSeq(ops, LAMBDA o : o.op = "write" /\ o.st = "writable")
CloseOps == SelectSeq(ops, LAMBDA o : o.op \in {"end", "destroy"})
FramesOf(s) == [i \in 1..Len(s) |-> s[i].frame]
BackendFrames(cs) == [i \in 1..Len(cs) |-> BackendFrame(cs[i])]
IsErrorFrame(f) == f.origin = "proxy"

\* the handler has been entered and parseClientRequest has returned or thrown
PastParse == pc \in {"open", "send", "awaitSend", "relay", "catch", "catchMessage",
                     "finally", "done"}

\* the request carries a body whose text, as the selected branch reads it,
\* is not JSON
BodyUnparsable(e) ==
    /\ BodyTruthy(e.body)
    /\ \/ e.body.text.kind = "malformed"
       \/ e.isBase64Encoded /\ e.body.enc # "b64"
       \/ ~e.isBase64Encoded /\ e.body.enc # "plain"

\* the request carries a body that reads as a JSON object or array
BodyReadable(e) ==
    /\ BodyTruthy(e.body)
    /\ ~BodyUnparsable(e)
    /\ e.body.text.kind \in {"object", "array"}

\* C1: when the backend stream ends cleanly, the writes issued on the
\* channel are exactly the emitted chunks, in order, each accepted and
\* delivered, and the channel is closed exactly once, after the last chunk;
\* while the relay runs, what the channel holds and has delivered is the
\* emitted sequence so far.
C1_CleanRelayForwardsExactly ==
    /\ (pc = "relay" /\ srcState \in {"flowing", "paused", "ended"}) =>
          /\ delivered \o sinkBuf = BackendFrames(emitted)
          /\ FramesOf(WriteOps) = BackendFrames(emitted)
    /\ (pc = "done" /\ srcState = "ended") =>
          /\ FramesOf(WriteOps) = BackendFrames(emitted)
          /\ AcceptedOps = WriteOps
          /\ delivered = BackendFrames(emitted)
          /\ Len(CloseOps) = 1
          /\ ops[Len(ops)].op = "end"
          /\ ops[Len(ops)].by = "relay"

C1_Witness ==
    /\ pc = "done"
    /\ srcState = "ended"
    /\ emitted = <<"A", "B">>
    /\ delivered = <<BackendFrame("A"), BackendFrame("B")>>

\* C2: when the backend stream errors after a non-empty prefix, the
\* channel receives that prefix, then exactly one error frame, and is then
\* closed.
C2_PrefixThenOneErrorFrame ==
    (pc = "done" /\ srcState = "errored" /\ emitted # <<>>) =>
        /\ Len(AcceptedOps) = Len(emitted) + 1
        /\ \A i \in 1..Len(emitted) : AcceptedOps[i].frame = BackendFrame(emitted[i])
        /\ IsErrorFrame(AcceptedOps[Len(AcceptedOps)].frame)
        /\ Len(WriteOps) = Len(emitted) + 1
        /\ ops[Len(ops)].op \in {"end", "destroy"}

\* C3: no write is issued on the channel after it has been ended or
\* destroyed.
C3_NoWriteAfterClose ==
    \A i \in 1..Len(ops) : ops[i].op = "write" => ops[i].st = "writable"

\* C4: the channel is opened at most once, closed exactly once by the time
\* the handler returns, and never closed both by the relay and by the
\* failure reporter.
C4_OpenedOnceClosedOnce ==
    /\ opened <= 1
    /\ pc = "done" => Len(CloseOps) = 1
    /\ ~(\E i, j \in 1..Len(ops) :
            /\ ops[i].op \in {"end", "destroy"} /\ ops[i].by = "relay"
            /\ ops[j].op \in {"end", "destroy"} /\ ops[j].by = "reporter")

\* C5: for a body that is present but not parseable, the handler first
\* opens the channel with status 200 and the event-stream headers, then
\* writes an error frame, then closes the channel, and returns.
C5_ParseFailureOpensThenReports ==
    (pc = "done" /\ BodyUnparsable(event)) =>
        /\ opened = 1
        /\ metadata = responseMetadata
        /\ Len(ops) >= 3
        /\ ops[1].op = "open"
        /\ ops[2].op = "write" /\ IsErrorFrame(ops[2].frame) /\ ops[2].st = "writable"
        /\ ops[Len(ops)].op = "end"

\* the session identifier the request supplies in the shape that is read:
\* the body's when a body is read, the query's otherwise
SuppliedSessionId(e) ==
    IF BodyTruthy(e.body)
    THEN IF BodyReadable(e) THEN e.body.text.sessionId ELSE Absent
    ELSE IF e.queryStringParameters.present
         THEN e.queryStringParameters.sessionId
         ELSE Absent

C7_SessionIdNeverEmpty ==
    \A i \in 1..Len(sent) :
        /\ sent[i].runtimeSessionId # Absent
        /\ sent[i].runtimeSessionId # ""

C7_Witness ==
    /\ Len(sent) = 1
    /\ BodyReadable(event)
    /\ event.body.text.sessionId = ""
    /\ sent[1].runtimeSessionId \in UUIDs

\* C8: the result of the Normalizer follows the fixed-precedence table:
\* a base64 body is decoded and parsed; otherwise a plain body is parsed;
\* otherwise the query parameters give prompt and sessionId; otherwise the
\* default prompt is used without failure. A readable body decides the
\* prompt whatever the query parameters are. (A body is present when
\* event.body is a non-empty string.)
C8_DecisionTable ==
    PastParse =>
        LET e == event
            q == event.queryStringParameters
            t == event.body.text
            sidOk(given) == IF Truthy(given)
                            THEN requestParams.sessionId = given
                            ELSE requestParams.sessionId \in UUIDs
        IN  /\ (BodyTruthy(e.body) /\ e.isBase64Encoded /\ e.body.enc = "b64"
                    /\ t.kind \in {"object", "array"}) =>
                  requestParams.kind = t.kind /\ requestParams.prompt = t.prompt
                      /\ sidOk(t.sessionId)
            /\ (BodyTruthy(e.body) /\ ~e.isBase64Encoded /\ e.body.enc = "plain"
                    /\ t.kind \in {"object", "array"}) =>
                  requestParams.kind = t.kind /\ requestParams.prompt = t.prompt
                      /\ sidOk(t.sessionId)
            /\ (~BodyTruthy(e.body) /\ q.present /\ Truthy(q.prompt)) =>
                  requestParams.prompt = q.prompt /\ sidOk(q.sessionId)
            /\ (~BodyTruthy(e.body) /\ ~(q.present /\ Truthy(q.prompt))) =>
                  requestParams.prompt = DefaultPrompt
                      /\ requestParams.sessionId \in UUIDs
                      /\ error \notin {SyntaxError, TypeError}

C8_Witness ==
    /\ PastParse
    /\ event.body.enc = "plain"
    /\ ~event.isBase64Encoded
    /\ event.body.text.kind = "object"
    /\ event.body.text.prompt = "hi"
    /\ event.queryStringParameters.prompt = "q"
    /\ requestParams.prompt = "hi"

\* C9: when a body is present but unparsable the request fails at the
\* Normalizer: no query-parameter or default-prompt record is produced and
\* the backend is never invoked.
C9_UnparsableBodyFailsWithoutFallback ==
    (PastParse /\ BodyUnparsable(event)) =>
        /\ requestParams = NoParams
        /\ error = SyntaxError
        /\ sent = <<>>
        /\ srcState = "none"
        /\ pc \in {"catch", "catchMessage", "finally", "done"}

C9_Witness ==
    /\ pc = "done"
    /\ BodyUnparsable(event)
    /\ event.queryStringParameters.prompt = "q"
    /\ sent = <<>>

\* C10: the backend is invoked at most once per request: not at all
\* before or without a successful normalization, exactly once after it,
\* and never again after an invocation failure or a relay failure.
C10_InvokedAtMostOnce ==
    /\ Len(sent) <= 1
    /\ requestParams = NoParams => sent = <<>>
    /\ (requestParams # NoParams /\ pc \notin {"open", "send"}) => Len(sent) = 1
    /\ (pc = "done" /\ error # NoError /\ requestParams # NoParams) => Len(sent) = 1

C10_Witness ==
    /\ pc = "done"
    /\ srcState = "errored"
    /\ error.isError
    /\ Len(sent) = 1

\* C11: whenever a failure was detected inside the proxy, the stream the
\* client has received once the handler has returned and the channel has
\* nothing left to flush contains an error record after what was already
\* delivered; the stream never ends without one.
C11_FailureAlwaysReported ==
    (pc = "done" /\ error # NoError /\ sinkBuf = <<>>) =>
        /\ delivered # <<>>
        /\ IsErrorFrame(delivered[Len(delivered)])

\* a write of the failure reporter has raised
ReportingFailed == \E i \in 1..Len(ops) : ops[i].raised

\* C12: when the write of a diagnostic frame itself fails, the failure is
\* swallowed: control is in the finally block or the handler has returned
\* normally, and by the time it has returned the close of the channel was
\* attempted after the failed write.
C12_ReportingFailureSwallowed ==
    ReportingFailed =>
        /\ pc \in {"finally", "done"}
        /\ ops[Len(ops)].raised => pc = "finally"
        /\ pc = "done" =>
              /\ ops[Len(ops)].op = "end"
              /\ ops[Len(ops)].by = "reporter"
              /\ ops[Len(ops) - 1].raised

C12_Witness ==
    /\ pc = "done"
    /\ ReportingFailed
    /\ ops[Len(ops)].op = "end"

\* C13: every payload sent to the backend contains a prompt field that
\* holds non-empty text.
C13_PayloadHasNonEmptyPrompt ==
    \A i \in 1..Len(sent) :
        /\ sent[i].payload.hasPrompt
        /\ sent[i].payload.prompt # ""
        /\ sent[i].payload.prompt # Absent

\* C14: when the backend target identity is absent from the configuration
\* the module fails to load: the handler is never entered, so no channel
\* is opened or written, no backend invocation is issued and nothing is
\* reported per request.
C14_MissingArnFailsAtStartup ==
    (agentCoreArn = Absent \/ agentCoreArn = "") =>
        /\ pc \in {"load", "startupFailed"}
        /\ opened = 0
        /\ ops = <<>>
        /\ sent = <<>>
        /\ error = NoError

C14_Witness ==
    /\ agentCoreArn = Absent
    /\ pc = "startupFailed"

\* C15: during the relay a full sink pauses the source: no chunk is read
\* while the source is paused, reading resumes only on a drain that
\* empties the sink, and the chunks read but not yet taken by the consumer
\* never exceed the high-water mark.
C15_Backpressure ==
    /\ [](Len(sinkBuf) <= HighWaterMark)
    /\ [](pc = "relay" => Len(emitted) - Len(delivered) <= HighWaterMark)
    /\ []((pc = "relay" /\ srcState = "flowing") => Len(sinkBuf) < HighWaterMark)
    /\ [][srcState = "paused" => emitted' = emitted]_vars
    /\ [][(srcState = "paused" /\ srcState' = "flowing") =>
             (sinkBuf' = <<>> /\ Len(delivered') = Len(delivered) + 1)]_vars

C15_Witness ==
    /\ pc = "relay"
    /\ srcState = "paused"
    /\ Len(sinkBuf) = HighWaterMark
    /\ Len(emitted) < MaxChunks

\* the request has got past the backend call
PastSend == pc \in {"relay", "catch", "catchMessage", "finally", "done"} /\ sent # <<>>

\* C16: the relay begins only after the backend call has completed with a
\* stream handle: while relaying, exactly one invocation was issued, it
\* has not failed and a stream is attached; when the invocation failed or
\* returned no handle, no stream is ever attached, the relay is never
\* entered and no backend frame is written to the channel.
C16_RelayOnlyAfterHandle ==
    /\ pc = "relay" =>
          /\ Len(sent) = 1
          /\ error = NoError
          /\ srcState \in {"flowing", "paused", "ended"}
    /\ (PastSend /\ srcState = "none") =>
          /\ error \in BackendErrors \cup {InvalidArgError}
          /\ pc # "relay"
          /\ emitted = <<>>
          /\ \A i \in 1..Len(ops) : ops[i].frame.origin # "backend"
    /\ (PastSend /\ srcState # "none") => error # InvalidArgError
    /\ (\E i \in 1..Len(ops) : ops[i].frame.origin = "backend") =>
          /\ srcState # "none"
          /\ Len(sent) = 1

C16_Witness ==
    /\ pc = "done"
    /\ error = InvalidArgError
    /\ srcState = "none"
    /\ Len(sent) = 1
    /\ Len(WriteOps) = 2

\* the index of the quote that closes a JSON string whose body starts at
\* i, or 0 when the body is not a JSON string body: a line break inside
\* it, a backslash that starts no escape sequence, or no closing quote
RECURSIVE StringEnd(_, _)
StringEnd(s, i) ==
    IF i > Len(s) THEN 0
    ELSE IF s[i] = QUOTE THEN i
    ELSE IF s[i] = NEWLINE THEN 0
    ELSE IF s[i] = BACKSLASH
    THEN IF i + 1 <= Len(s) /\ s[i + 1] \in {QUOTE, BACKSLASH}
         THEN StringEnd(s, i + 2)
         ELSE 0
    ELSE StringEnd(s, i + 1)

\* j is a JSON object with the single key error and a string value
IsJsonErrorObject(j) ==
    /\ Len(j) >= 8
    /\ j[1] = "{" /\ j[2] = QUOTE /\ j[3] = "error" /\ j[4] = QUOTE /\ j[5] = ": "
    /\ j[6] = QUOTE
    /\ StringEnd(j, 7) = Len(j) - 1
    /\ j[Len(j)] = "}"

\* t is one event-stream record: a single data line holding a JSON error
\* object, ended by a blank line
IsSseErrorRecord(t) ==
    /\ Len(t) >= 3
    /\ t[1] = "data: "
    /\ t[Len(t) - 1] = NEWLINE /\ t[Len(t)] = NEWLINE
    /\ \A i \in 2..(Len(t) - 2) : t[i] # NEWLINE
    /\ IsJsonErrorObject(SubSeq(t, 2, Len(t) - 2))

\* C17: every record the failure reporter writes is a single self-delimited
\* event-stream record data: <json> followed by a blank line, with <json> a
\* well-formed JSON object with an error key, whatever the failure message
\* contains.
C17_ErrorRecordsWellFormed ==
    \A i \in 1..Len(ops) :
        (ops[i].op = "write" /\ ops[i].by = "reporter") =>
            IsSseErrorRecord(ops[i].frame.data)

\* the request carries a body that the selected branch reads as
\* well-formed JSON of any kind
BodyParsesAsJson(e) ==
    /\ BodyTruthy(e.body)
    /\ ~BodyUnparsable(e)
    /\ e.body.text.kind \in {"null", "prim", "array", "object"}

\* C18: the assignment of the session identifier never fails: for every
\* body that parses as JSON (null, a string, a number and an array
\* included) it completes and yields a record with a session identifier.
C18_AssignerNeverFails ==
    (PastParse /\ BodyParsesAsJson(event)) =>
        /\ requestParams # NoParams
        /\ requestParams.sessionId # Absent
        /\ error # TypeError

\* C19: whenever the backend is about to be or has been invoked, the
\* channel has already been opened, once, with status 200 and the
\* event-stream headers, as the first call made on it; so every error
\* frame reported after an invocation was issued is written to a channel
\* that has been opened.
C19_OpenedBeforeInvocation ==
    (pc = "send" \/ sent # <<>>) =>
        /\ opened = 1
        /\ metadata.statusCode = StatusCode
        /\ metadata.contentType = "text/event-stream"
        /\ metadata.cacheControl = "no-cache"
        /\ metadata.accelBuffering = "no"
        /\ ops # <<>>
        /\ ops[1].op = "open"
        /\ \A i \in 1..Len(ops) :
              (ops[i].op = "write" /\ ops[i].by = "reporter") => ops[i].opened = 1

C19_Witness ==
    /\ pc = "done"
    /\ Len(sent) = 1
    /\ srcState = "none"
    /\ error \in BackendErrors
    /\ error.isError
    /\ Len(AcceptedOps) = 2
    /\ AcceptedOps[1].opened = 1
    /\ AcceptedOps[1].by = "reporter"

====
